---------------------------- MODULE Spec2Model ----------------------------
(***************************************************************************)
(* A model of four components of Simpatico:                                *)
(*   - DdMd::SpCell                     (src/ddMd/sp/neighbor/SpCell.h)    *)
(*   - McMd::MdCoulombPotential         (MdCoulombPotential.cpp)           *)
(*   - McMd::FineEwaldCoulombPotential  (FineEwaldCoulombPotential.cpp)    *)
(*   - the neighbor enumeration SpCell::getNeighbors over a cell array     *)
(* Each component has its own specification (SpecCell, SpecCoulomb,        *)
(* SpecEwald, SpecGrid); the variables of the other components stay at     *)
(* their idle values.                                                      *)
(***************************************************************************)
EXTENDS Integers, Sequences, FiniteSets, TLC

VARIABLES
    \* ---- one SpCell (SpCell.h:231-252)
    begin_,            \* SpCellAtom* begin_ : address of the first slot, 0 = null
    offsetsPtr_,       \* OffsetArray* offsetsPtr_, 0 = null
    nextSpCellPtr_,    \* SpCell* nextSpCellPtr_, 0 = null
    nAtom_,            \* int nAtom_
    atomCapacity_,     \* int atomCapacity_
    id_,               \* int id_
    isGhostSpCell_,    \* bool isGhostSpCell_
    mem,               \* the externally owned SpCellAtom array: address -> atom handle (0 = none)
    cellCall,          \* the last call on the cell: [op, ok, ret] (ok = no assertion failed)
    nInc,              \* history: incrementCapacity() calls accepted since the last clear()
    initCalled,        \* history: initialize() accepted since the last clear()
    appended,          \* history: the atoms append() stored since the last clear(), in order
    \* ---- one MdCoulombPotential
    hasWaves_,         \* bool hasWaves_
    kSpaceEnergy_,     \* Setable<double> kSpaceEnergy_ : [isSet, value]
    kSpaceStress_,     \* Setable<Tensor> kSpaceStress_ : [isSet, value]
    config,            \* the particle configuration the subclass computes from
    coulCall,          \* the last call on the potential: [op, ok, ret]
    nComputeEnergy,    \* computeEnergy() invocations made by the last call
    nComputeStress,    \* computeStress() invocations made by the last call
    energyReads,       \* history: kSpaceEnergy() reads since the last unsetEnergy(), up to 2
    stressReads,       \* history: kSpaceStress() reads since the last unsetStress(), up to 2
    lastEnergy,        \* history: the value the last kSpaceEnergy() read returned
    lastStress,        \* history: the value the last kSpaceStress() read returned
    \* ---- an array of SpCell with its shared offset table (a SpCellList)
    gridCells,         \* cell index -> [id, isGhost, nAtom]
    gridOffsets,       \* the OffsetArray: a sequence of strips <<first, last>> of relative indices
    gridCur,           \* the cell the traversal of the linked list is at, -1 = null
    gridVisited,       \* history: the cells getNeighbors has been called on
    gridOut,           \* history: cell index -> the array its getNeighbors call filled
    \* ---- one FineEwaldCoulombPotential and its Boundary
    recLen,            \* Boundary: <<B0, B1, B2>>, the lengths that set the reciprocal basis
    tilt,              \* Boundary: the component of reciprocal vector b1 along b0
    kCutoff_,          \* double kCutoff_
    waves_,            \* GArray<IntVector> waves_
    ksq_,              \* GArray<double> ksq_
    g_,                \* GArray<double> g_ : its size
    rho_,              \* GArray<DCMPLX> rho_ : its size
    fexp0_,            \* GArray<DCMPLX> fexp0_ : its size
    fexp1_,            \* GArray<DCMPLX> fexp1_ : its size
    fexp2_,            \* GArray<DCMPLX> fexp2_ : its size
    base0_,            \* int base0_
    base1_,            \* int base1_
    base2_,            \* int base2_
    range0_,           \* Pair<int> range0_
    range1_,           \* GArray< Pair<int> > range1_
    range2_,           \* GArray< Pair<int> > range2_
    ewCall,            \* the last call on the potential: [op, ok, ret]
    madeWaves,         \* history: the last makeWaves() call completed without throwing
    visited,           \* history: the index triples <<i0, i1, i2>> the wave loop of addKSpaceForces visited
    forceOob,          \* history: the wave loop of addKSpaceForces read outside an array
    \* ---- a list of SpCell bound to one SpCellAtom array by chaining initialize
    listCells,         \* cell index -> [begin_, nAtom_, atomCapacity_]
    listMem,           \* history: address of the SpCellAtom array -> the cell that appended the atom the slot holds, 0 = none since the last clear
    listBound,         \* the number of cells bound so far, in list order
    listEnd,           \* the address the next initialize is given: the first begin, then what the previous initialize returned
    listClobbered,     \* history: an append wrote a slot that held an atom of another cell
    listCall,          \* the last call on a cell of the list: [op, ok, ret]
    \* ---- one TextFileOArchive and the std::ostream it writes to
    out,               \* the characters written to *ostreamPtr_, in order
    fmt,               \* the stream's formatting state: [scientific, precision, width]
    arCall,            \* the last call on the archive: [op, value, text], text being what it wrote
    nPacks,            \* history: the number of calls made on the archive
    \* ---- the charged atoms of the System and the contents of rho_
    atomPos,           \* atom -> its generalized position rg, in quarters of the cell
    rhoVal,            \* GArray<DCMPLX> rho_ : its elements <<real, imag>>
    rhoStale,          \* history: the last call found in rho_ non-zero modes
                       \* other than those it left
    chCall             \* the last call that computes the charge modes: [op, ok, ret]

cellVars == <<begin_, offsetsPtr_, nextSpCellPtr_, nAtom_, atomCapacity_, id_,
              isGhostSpCell_, mem, cellCall, nInc, initCalled, appended>>

coulVars == <<hasWaves_, kSpaceEnergy_, kSpaceStress_, config, coulCall,
              nComputeEnergy, nComputeStress, energyReads, stressReads,
              lastEnergy, lastStress>>

gridVars == <<gridCells, gridOffsets, gridCur, gridVisited, gridOut>>

ewaldVars == <<recLen, tilt, kCutoff_, waves_, ksq_, g_, rho_, fexp0_, fexp1_,
               fexp2_, base0_, base1_, base2_, range0_, range1_, range2_,
               ewCall, madeWaves, visited, forceOob>>

listVars == <<listCells, listMem, listBound, listEnd, listClobbered, listCall>>

archiveVars == <<out, fmt, arCall, nPacks>>

chargeVars == <<atomPos, rhoVal, rhoStale, chCall>>

vars == <<cellVars, coulVars, gridVars, ewaldVars, listVars, archiveVars, chargeVars>>

---------------------------------------------------------------------------
(* Bounds of the SpCell model *)

\* largest capacity a cell is sized to
MaxCapacity == 2
\* begin addresses handed to initialize are 1..MaxAddr
MaxAddr == 1
\* atom handles are 1..NumAtoms
NumAtoms == 2
\* cell ids are 0..MaxId
MaxId == 1

Addrs == 1..MaxAddr
MemAddrs == 1..(MaxAddr + MaxCapacity)
Atoms == 1..NumAtoms
Call(op, ok, ret) == [op |-> op, ok |-> ok, ret |-> ret]

---------------------------------------------------------------------------
(* SpCell *)

\* State after construction. The constructor is defined in SpCell.cpp; the
\* cell starts unbound and empty, its id is whatever setId gave it.
CellInit ==
    /\ begin_ = 0
    /\ offsetsPtr_ = 0
    /\ nextSpCellPtr_ = 0
    /\ nAtom_ = 0
    /\ atomCapacity_ = 0
    /\ id_ \in 0..MaxId
    /\ isGhostSpCell_ = FALSE
    /\ mem = [a \in MemAddrs |-> 0]
    /\ cellCall = Call("SpCell", TRUE, 0)
    /\ nInc = 0
    /\ initCalled = FALSE
    /\ appended = <<>>

\* A call whose assertion failed: nothing but the record of the call changes.
Rejected(op) ==
    /\ cellCall' = Call(op, FALSE, 0)
    /\ UNCHANGED <<begin_, offsetsPtr_, nextSpCellPtr_, nAtom_, atomCapacity_,
                   id_, isGhostSpCell_, mem, nInc, initCalled, appended>>

setId(id) ==
    /\ id_' = id
    /\ cellCall' = Call("setId", TRUE, 0)
    /\ UNCHANGED <<begin_, offsetsPtr_, nextSpCellPtr_, nAtom_, atomCapacity_,
                   isGhostSpCell_, mem, nInc, initCalled, appended>>

setOffsetArray(offsets) ==
    /\ offsetsPtr_' = offsets
    /\ cellCall' = Call("setOffsetArray", TRUE, 0)
    /\ UNCHANGED <<begin_, nextSpCellPtr_, nAtom_, atomCapacity_, id_,
                   isGhostSpCell_, mem, nInc, initCalled, appended>>

setIsGhostSpCell(isGhostSpCell) ==
    /\ isGhostSpCell_' = isGhostSpCell
    /\ cellCall' = Call("setIsGhostSpCell", TRUE, 0)
    /\ UNCHANGED <<begin_, offsetsPtr_, nextSpCellPtr_, nAtom_, atomCapacity_,
                   id_, mem, nInc, initCalled, appended>>

setNextSpCell(nextSpCell) ==
    /\ nextSpCellPtr_' = nextSpCell
    /\ cellCall' = Call("setNextSpCell", TRUE, 0)
    /\ UNCHANGED <<begin_, offsetsPtr_, nAtom_, atomCapacity_, id_,
                   isGhostSpCell_, mem, nInc, initCalled, appended>>

setLastSpCell ==
    /\ nextSpCellPtr_' = 0
    /\ cellCall' = Call("setLastSpCell", TRUE, 0)
    /\ UNCHANGED <<begin_, offsetsPtr_, nAtom_, atomCapacity_, id_,
                   isGhostSpCell_, mem, nInc, initCalled, appended>>

\* assert(begin_ == 0)
incrementCapacityPre_unchecked == TRUE
incrementCapacityPre == begin_ = 0

incrementCapacity ==
    /\ atomCapacity_ < MaxCapacity
    /\ IF incrementCapacityPre
       THEN /\ atomCapacity_' = atomCapacity_ + 1
            /\ nInc' = nInc + 1
            /\ cellCall' = Call("incrementCapacity", TRUE, 0)
            /\ UNCHANGED <<begin_, offsetsPtr_, nextSpCellPtr_, nAtom_, id_,
                           isGhostSpCell_, mem, initCalled, appended>>
       ELSE Rejected("incrementCapacity")

clear_resetsLinkAndGhost ==
    /\ begin_' = 0
    /\ nAtom_' = 0
    /\ atomCapacity_' = 0
    /\ nextSpCellPtr_' = 0
    /\ isGhostSpCell_' = FALSE
    /\ nInc' = 0
    /\ initCalled' = FALSE
    /\ appended' = <<>>
    /\ cellCall' = Call("clear", TRUE, 0)
    /\ UNCHANGED <<offsetsPtr_, id_, mem>>
clear ==
    /\ begin_' = 0
    /\ nAtom_' = 0
    /\ atomCapacity_' = 0
    /\ nInc' = 0
    /\ initCalled' = FALSE
    /\ appended' = <<>>
    /\ cellCall' = Call("clear", TRUE, 0)
    /\ UNCHANGED <<offsetsPtr_, nextSpCellPtr_, id_, isGhostSpCell_, mem>>

\* assert(begin_ == 0); assert(nAtom_ == 0); assert(atomCapacity_ >= 0)
initializePre_needsCapacity == begin_ = 0 /\ nAtom_ = 0 /\ atomCapacity_ > 0
initializePre == begin_ = 0 /\ nAtom_ = 0 /\ atomCapacity_ >= 0

\* return (begin_ + atomCapacity_)
segmentEnd_liveCount(begin, capacity) == begin + nAtom_
segmentEnd_lastSlot(begin, capacity) ==
    IF capacity > 0 THEN begin + capacity - 1 ELSE begin
segmentEnd(begin, capacity) == begin + capacity

initialize(begin) ==
    IF initializePre
    THEN /\ begin_' = begin
         /\ initCalled' = TRUE
         /\ cellCall' = Call("initialize", TRUE, segmentEnd(begin, atomCapacity_))
         /\ UNCHANGED <<offsetsPtr_, nextSpCellPtr_, nAtom_, atomCapacity_, id_,
                        isGhostSpCell_, mem, nInc, appended>>
    ELSE Rejected("initialize")

\* assert(begin_ != 0); assert(nAtom_ < atomCapacity_)
appendPre_noCapacityCheck == begin_ # 0 /\ nAtom_ <= atomCapacity_
appendPre_noBindingCheck == nAtom_ < atomCapacity_
appendPre == begin_ # 0 /\ nAtom_ < atomCapacity_

append(atomPtr) ==
    IF appendPre
    THEN /\ mem' = [mem EXCEPT ![begin_ + nAtom_] = atomPtr]
         /\ nAtom_' = nAtom_ + 1
         /\ appended' = Append(appended, atomPtr)
         /\ cellCall' = Call("append", TRUE, 0)
         /\ UNCHANGED <<begin_, offsetsPtr_, nextSpCellPtr_, atomCapacity_, id_,
                        isGhostSpCell_, nInc, initCalled>>
    ELSE Rejected("append")

\* assert(i >= 0); assert(i < nAtom_)
atomPtrPre_withinCapacity(i) == i >= 0 /\ i < atomCapacity_
atomPtrPre(i) == i >= 0 /\ i < nAtom_

\* return &begin_[i]. The record of the call keeps the index asked for.
atomPtr(i) ==
    /\ cellCall' = [op |-> "atomPtr", ok |-> atomPtrPre(i),
                    ret |-> IF atomPtrPre(i) THEN begin_ + i ELSE 0, arg |-> i]
    /\ UNCHANGED <<begin_, offsetsPtr_, nextSpCellPtr_, nAtom_, atomCapacity_,
                   id_, isGhostSpCell_, mem, nInc, initCalled, appended>>

\* The variables of the other components, which a step of SpCell leaves alone.
CellFrame == UNCHANGED <<coulVars, gridVars, ewaldVars, listVars, archiveVars, chargeVars>>

CellNext ==
    \/ (\E id \in 0..MaxId : setId(id)) /\ CellFrame
    \/ (\E o \in 0..1 : setOffsetArray(o)) /\ CellFrame
    \/ (\E g \in BOOLEAN : setIsGhostSpCell(g)) /\ CellFrame
    \/ setNextSpCell(1) /\ CellFrame
    \/ setLastSpCell /\ CellFrame
    \/ clear /\ CellFrame
    \/ incrementCapacity /\ CellFrame
    \/ (\E b \in Addrs : initialize(b)) /\ CellFrame
    \/ (\E a \in Atoms : append(a)) /\ CellFrame

\* The build protocol and the accessor atomPtr, without the setters of the
\* members they do not read.
CellAccessNext ==
    \/ clear /\ CellFrame
    \/ incrementCapacity /\ CellFrame
    \/ (\E b \in Addrs : initialize(b)) /\ CellFrame
    \/ (\E a \in Atoms : append(a)) /\ CellFrame
    \/ (\E i \in -1..MaxCapacity : atomPtr(i)) /\ CellFrame

\* The cell of the specifications that are not about SpCell.
CellIdle == CellInit /\ id_ = 0

---------------------------------------------------------------------------
(* MdCoulombPotential *)

\* particle configurations are 0..MaxConfig
MaxConfig == 2

Configs == 0..MaxConfig
Setable(isSet, value) == [isSet |-> isSet, value |-> value]

\* What the subclass computes for a configuration: the k-space energy and
\* stress and the r-space accumulator's values, as abstract numbers.
KEnergy(c) == c + 1
KStress(c) == 2 * c + 1
RSpaceEnergy(c) == 10 * (c + 1)
RSpaceStress(c) == 20 * (c + 1)

\* MdCoulombPotential(): isInitialized_(false), hasWaves_(false); the two
\* Setable members are default-constructed, which leaves them unset.
CoulInit ==
    /\ hasWaves_ = FALSE
    /\ kSpaceEnergy_ = Setable(FALSE, 0)
    /\ kSpaceStress_ = Setable(FALSE, 0)
    /\ config = 0
    /\ coulCall = Call("MdCoulombPotential", TRUE, 0)
    /\ nComputeEnergy = 0
    /\ nComputeStress = 0
    /\ energyReads = 0
    /\ stressReads = 0
    /\ lastEnergy = 0
    /\ lastStress = 0

\* The subclass's computeEnergy(): sets kSpaceEnergy_ from the configuration.
computeEnergy == Setable(TRUE, KEnergy(config))

\* The subclass's computeStress(): sets kSpaceStress_ from the configuration.
computeStress == Setable(TRUE, KStress(config))

\* The simulation moves particles: the configuration changes.
moveAtoms(c) ==
    /\ c # config
    /\ config' = c
    /\ coulCall' = Call("moveAtoms", TRUE, 0)
    /\ nComputeEnergy' = 0
    /\ nComputeStress' = 0
    /\ UNCHANGED <<hasWaves_, kSpaceEnergy_, kSpaceStress_, energyReads,
                   stressReads, lastEnergy, lastStress>>

\* The subclass's makeWaves(): precomputes the waves and sets hasWaves_.
coulMakeWaves ==
    /\ hasWaves_' = TRUE
    /\ coulCall' = Call("makeWaves", TRUE, 0)
    /\ nComputeEnergy' = 0
    /\ nComputeStress' = 0
    /\ UNCHANGED <<kSpaceEnergy_, kSpaceStress_, config, energyReads,
                   stressReads, lastEnergy, lastStress>>

\* unsetWaves(): hasWaves_ = false
unsetWaves ==
    /\ hasWaves_' = FALSE
    /\ coulCall' = Call("unsetWaves", TRUE, 0)
    /\ nComputeEnergy' = 0
    /\ nComputeStress' = 0
    /\ UNCHANGED <<kSpaceEnergy_, kSpaceStress_, config, energyReads,
                   stressReads, lastEnergy, lastStress>>

\* Setable::unset(): the value stays, the flag is cleared.
unsetEnergy_alsoStress ==
    /\ kSpaceEnergy_' = Setable(FALSE, kSpaceEnergy_.value)
    /\ kSpaceStress_' = Setable(FALSE, kSpaceStress_.value)
    /\ energyReads' = 0
    /\ coulCall' = Call("unsetEnergy", TRUE, 0)
    /\ nComputeEnergy' = 0
    /\ nComputeStress' = 0
    /\ UNCHANGED <<hasWaves_, config, stressReads, lastEnergy, lastStress>>

unsetEnergy ==
    /\ kSpaceEnergy_' = Setable(FALSE, kSpaceEnergy_.value)
    /\ energyReads' = 0
    /\ coulCall' = Call("unsetEnergy", TRUE, 0)
    /\ nComputeEnergy' = 0
    /\ nComputeStress' = 0
    /\ UNCHANGED <<hasWaves_, kSpaceStress_, config, stressReads, lastEnergy,
                   lastStress>>

\* if (!kSpaceEnergy_.isSet()) computeEnergy();  then kSpaceEnergy_.value()
energyNeedsCompute_always == TRUE
energyNeedsCompute == ~kSpaceEnergy_.isSet

ReadEnergy(op, rspace) ==
    /\ kSpaceEnergy_' = IF energyNeedsCompute THEN computeEnergy ELSE kSpaceEnergy_
    /\ nComputeEnergy' = IF energyNeedsCompute THEN 1 ELSE 0
    /\ nComputeStress' = 0
    /\ lastEnergy' = kSpaceEnergy_'.value
    /\ energyReads' = IF energyReads < 2 THEN energyReads + 1 ELSE 2
    /\ coulCall' = Call(op, TRUE, kSpaceEnergy_'.value + rspace)
    /\ UNCHANGED <<hasWaves_, kSpaceStress_, config, stressReads, lastStress>>

kSpaceEnergy == ReadEnergy("kSpaceEnergy", 0)

\* temp = kSpaceEnergy(); temp += rSpaceAccumulator_.rSpaceEnergy()
energy == ReadEnergy("energy", RSpaceEnergy(config))

unsetStress ==
    /\ kSpaceStress_' = Setable(FALSE, kSpaceStress_.value)
    /\ stressReads' = 0
    /\ coulCall' = Call("unsetStress", TRUE, 0)
    /\ nComputeEnergy' = 0
    /\ nComputeStress' = 0
    /\ UNCHANGED <<hasWaves_, kSpaceEnergy_, config, energyReads, lastEnergy,
                   lastStress>>

\* if (!kSpaceStress_.isSet()) computeStress();  then kSpaceStress_.value()
stressNeedsCompute == ~kSpaceStress_.isSet

ReadStress(op, rspace) ==
    /\ kSpaceStress_' = IF stressNeedsCompute THEN computeStress ELSE kSpaceStress_
    /\ nComputeStress' = IF stressNeedsCompute THEN 1 ELSE 0
    /\ nComputeEnergy' = 0
    /\ lastStress' = kSpaceStress_'.value
    /\ stressReads' = IF stressReads < 2 THEN stressReads + 1 ELSE 2
    /\ coulCall' = Call(op, TRUE, kSpaceStress_'.value + rspace)
    /\ UNCHANGED <<hasWaves_, kSpaceEnergy_, config, energyReads, lastEnergy>>

kSpaceStress == ReadStress("kSpaceStress", 0)

\* temp = kSpaceStress(); temp += rSpaceAccumulator_.rSpaceStress()
stress == ReadStress("stress", RSpaceStress(config))

CoulFrame == UNCHANGED <<cellVars, gridVars, ewaldVars, listVars, archiveVars, chargeVars>>

CoulNext ==
    \/ (\E c \in Configs : moveAtoms(c)) /\ CoulFrame
    \/ coulMakeWaves /\ CoulFrame
    \/ unsetWaves /\ CoulFrame
    \/ unsetEnergy /\ CoulFrame
    \/ kSpaceEnergy /\ CoulFrame
    \/ energy /\ CoulFrame
    \/ unsetStress /\ CoulFrame
    \/ kSpaceStress /\ CoulFrame
    \/ stress /\ CoulFrame

---------------------------------------------------------------------------
(* SpCell::getNeighbors over the cells of a cell list *)

\* the cell array holds cells 0..NumCells-1
NumCells == 4
\* a cell holds 0..MaxCellAtoms atoms
MaxCellAtoms == 1
\* SpCell::MaxNeighborAtom, the capacity of a NeighborArray
MaxNeighborAtom == 2000

Cells == 0..(NumCells - 1)

\* Offset tables: strips of relative cell indices, no cell in two strips.
OffsetTables ==
    { << <<-1, 1>> >>,
      << <<-1, -1>>, <<1, 1>> >>,
      << <<0, 1>> >> }

\* Ways of numbering the cells: by array index (what the cell list does),
\* in reverse, and with neighbouring cells sharing an id.
IdSchemes ==
    { [c \in Cells |-> c],
      [c \in Cells |-> NumCells - 1 - c],
      [c \in Cells |-> c \div 2] }

\* the cells the offset table reaches from cell c
Reach(offsets, c) ==
    UNION { (c + offsets[is][1])..(c + offsets[is][2]) : is \in 1..Len(offsets) }

\* the atoms of cell n, in slot order: atom <<n, i>> is the i-th atom of cell n
CellAtoms(n) == [i \in 1..gridCells[n].nAtom |-> <<n, i>>]

\* Whether getNeighbors on cell c takes the atoms of the neighbouring cell n:
\* a ghost cell always, a local cell only with an id greater than c's.
Included_bothWays(c, n) ==
    gridCells[n].isGhost \/ gridCells[n].id # gridCells[c].id
Included_idOnly(c, n) ==
    gridCells[n].id > gridCells[c].id
Included(c, n) ==
    gridCells[n].isGhost \/ gridCells[n].id > gridCells[c].id

\* the atoms taken from the cells n..last of one strip
RECURSIVE StripAtoms(_, _, _)
StripAtoms(c, n, last) ==
    IF n > last THEN <<>>
    ELSE (IF Included(c, n) THEN CellAtoms(n) ELSE <<>>) \o StripAtoms(c, n + 1, last)

\* the atoms taken from strips is.. of the offset table
RECURSIVE StripsAtoms(_, _)
StripsAtoms(c, is) ==
    IF is > Len(gridOffsets) THEN <<>>
    ELSE StripAtoms(c, c + gridOffsets[is][1], c + gridOffsets[is][2])
            \o StripsAtoms(c, is + 1)

\* getNeighbors(neighbors) with the default reverseUpdateFlag: the atoms of
\* this cell first, then those of the neighbouring cells, strip by strip.
getNeighbors(c) == CellAtoms(c) \o StripsAtoms(c, 1)

\* the next local cell after c in the linked list of local cells, -1 at the tail
NextLocal(c) ==
    LET later == { n \in Cells : n > c /\ ~gridCells[n].isGhost }
    IN  IF later = {} THEN -1 ELSE CHOOSE n \in later : \A m \in later : n <= m

\* A built cell list: every local cell's strips lie inside the array (the
\* ghost cells surround the local ones), the traversal is at the first local cell.
GridInit ==
    /\ gridOffsets \in OffsetTables
    /\ \E ids \in IdSchemes :
       \E ghost \in [Cells -> BOOLEAN] :
       \E n \in [Cells -> 0..MaxCellAtoms] :
          gridCells = [c \in Cells |-> [id |-> ids[c], isGhost |-> ghost[c], nAtom |-> n[c]]]
    /\ \A c \in Cells : ~gridCells[c].isGhost => Reach(gridOffsets, c) \subseteq Cells
    /\ gridCur = NextLocal(-1)
    /\ gridVisited = {}
    /\ gridOut = [c \in Cells |-> <<>>]

\* The cell list of the specifications that are not about getNeighbors.
GridIdle ==
    /\ gridOffsets = << <<-1, 1>> >>
    /\ gridCells = [c \in Cells |-> [id |-> c, isGhost |-> TRUE, nAtom |-> 0]]
    /\ gridCur = -1
    /\ gridVisited = {}
    /\ gridOut = [c \in Cells |-> <<>>]

\* One turn of the loop over the local cells: cellPtr->getNeighbors(neighbors);
\* cellPtr = cellPtr->nextSpCellPtr(). Filling more than MaxNeighborAtom
\* entries is a contract violation.
visitCell ==
    /\ gridCur # -1
    /\ Len(getNeighbors(gridCur)) <= MaxNeighborAtom
    /\ gridOut' = [gridOut EXCEPT ![gridCur] = getNeighbors(gridCur)]
    /\ gridVisited' = gridVisited \cup {gridCur}
    /\ gridCur' = NextLocal(gridCur)
    /\ UNCHANGED <<gridCells, gridOffsets>>

GridFrame == UNCHANGED <<cellVars, coulVars, ewaldVars, listVars, archiveVars, chargeVars>>

GridNext ==
    \/ visitCell /\ GridFrame

---------------------------------------------------------------------------
(* FineEwaldCoulombPotential *)

\* the lengths B0, B1, B2 of the boundary are 1..MaxRecLen
MaxRecLen == 3
\* the tilt of the boundary is 0..MaxTilt
MaxTilt == 1
\* kCutoff_ is 1..MaxCutoff
MaxCutoff == 3

Dimension == 3

\* The boundary. Its reciprocal basis vectors are b0 = (B0, 0, 0),
\* b1 = (tilt, B1, 0) and b2 = (0, 0, B2), in a unit in which they and the
\* cutoff are integers. Its Bravais basis vectors a_j satisfy
\* a_i . b_j = 2 pi delta_ij, so that
\*   |a0| / 2 pi = sqrt(B1^2 + tilt^2) / (B0 B1),  |a1| / 2 pi = 1 / B1,
\*   |a2| / 2 pi = 1 / B2.
reciprocalBasisVector(j) ==
    CASE j = 0 -> <<recLen[1], 0, 0>>
      [] j = 1 -> <<tilt, recLen[2], 0>>
      [] j = 2 -> <<0, 0, recLen[3]>>

\* (|a_j| / 2 pi)^2 as a fraction <<numerator, denominator>>
bravaisAbsSqOver2PiSq(j) ==
    CASE j = 0 -> <<recLen[2] * recLen[2] + tilt * tilt,
                    recLen[1] * recLen[1] * recLen[2] * recLen[2]>>
      [] j = 1 -> <<1, recLen[2] * recLen[2]>>
      [] j = 2 -> <<1, recLen[3] * recLen[3]>>

\* ceil(x) for x >= 0 with x^2 = num / den: the least m >= 0 with m^2 den >= num
RECURSIVE CeilSqrtFrom(_, _, _)
CeilSqrtFrom(m, num, den) ==
    IF m * m * den >= num THEN m ELSE CeilSqrtFrom(m + 1, num, den)

\* maxK[j] = ceil(kCutoff_*boundaryPtr_->bravaisBasisVector(j).abs()/pi2)
maxK(j) ==
    CeilSqrtFrom(0, kCutoff_ * kCutoff_ * bravaisAbsSqOver2PiSq(j)[1],
                 bravaisAbsSqOver2PiSq(j)[2])

\* the wavevector q = k[0] b0 + k[1] b1 + k[2] b2, which the loops build by
\* adding b0, b1 and b2 step by step
WaveVector(k) ==
    [d \in 1..Dimension |->
        k[1] * reciprocalBasisVector(0)[d] + k[2] * reciprocalBasisVector(1)[d]
          + k[3] * reciprocalBasisVector(2)[d]]

\* ksq = q.square()
Square(q) == q[1] * q[1] + q[2] * q[2] + q[3] * q[3]
KSq(k) == Square(WaveVector(k))

\* mink1 = (k[0] == 0 ? 0 : -maxK[1])
mink1_fullRange(k0) == -maxK(1)
mink1(k0) == IF k0 = 0 THEN 0 ELSE -maxK(1)

\* mink2 = (k[0] == 0 && k[1] == 0 ? 1 : -maxK[2])
mink2(k0, k1) == IF k0 = 0 /\ k1 = 0 THEN 1 ELSE -maxK(2)

\* if (ksq <= kCutoffSq)
Kept(k) == KSq(k) <= kCutoff_ * kCutoff_

\* for (k[2] = mink2; k[2] <= maxK[2]; ++k[2]) : the waves appended from k2 on
RECURSIVE WavesK2(_, _, _)
WavesK2(k0, k1, k2) ==
    IF k2 > maxK(2) THEN <<>>
    ELSE (IF Kept(<<k0, k1, k2>>) THEN << <<k0, k1, k2>> >> ELSE <<>>)
            \o WavesK2(k0, k1, k2 + 1)

\* for (k[1] = mink1; k[1] <= maxK[1]; ++k[1])
RECURSIVE WavesK1(_, _)
WavesK1(k0, k1) ==
    IF k1 > maxK(1) THEN <<>>
    ELSE WavesK2(k0, k1, mink2(k0, k1)) \o WavesK1(k0, k1 + 1)

\* for (k[0] = 0; k[0] <= maxK[0]; ++k[0])
RECURSIVE WavesK0(_)
WavesK0(k0) ==
    IF k0 > maxK(0) THEN <<>>
    ELSE WavesK1(k0, mink1(k0)) \o WavesK0(k0 + 1)

\* if (k[d] > upper) upper = k[d], over all kept waves, from the start value
UpperOf(w, d, start) ==
    LET S == {start} \cup { w[i][d] : i \in 1..Len(w) }
    IN  CHOOSE x \in S : \A y \in S : y <= x

\* if (k[d] < base) base = k[d], over all kept waves, from the start value
BaseOf(w, d, start) ==
    LET S == {start} \cup { w[i][d] : i \in 1..Len(w) }
    IN  CHOOSE x \in S : \A y \in S : x <= y

\* One turn of the second pass, for wave k. r is [r0, r1, r2]: range0_,
\* range1_ and range2_ so far; the running indices r1 and r2 of the code are
\* the last elements of range1_ and range2_.
RangeStep(r, k) ==
    IF k[1] > r.r0[2]
    THEN [r0 |-> <<r.r0[1], k[1]>>,
          r1 |-> Append(r.r1, <<k[2], k[2]>>),
          r2 |-> Append(r.r2, <<k[3], k[3]>>)]
    ELSE IF k[2] > r.r1[Len(r.r1)][2]
    THEN [r0 |-> r.r0,
          r1 |-> [r.r1 EXCEPT ![Len(r.r1)] = <<@[1], k[2]>>],
          r2 |-> Append(r.r2, <<k[3], k[3]>>)]
    ELSE [r0 |-> r.r0,
          r1 |-> r.r1,
          r2 |-> [r.r2 EXCEPT ![Len(r.r2)] = <<@[1], k[3]>>]]

\* for (int i = 0; i < waves_.size(); ++i) : the turns for waves lo..hi in
\* order, from r (the waves are halved, and the first half's result bound as
\* a value, to keep the evaluation shallow)
RECURSIVE RangePass(_, _, _, _)
RangePass(w, lo, hi, r) ==
    IF lo > hi THEN r
    ELSE IF lo = hi THEN RangeStep(r, w[lo])
    ELSE CHOOSE res \in { RangePass(w, (lo + hi) \div 2 + 1, hi, m) :
                              m \in {RangePass(w, lo, (lo + hi) \div 2, r)} } : TRUE

\* range0_[0] = 0; range0_[1] = -1; range1_ and range2_ empty
Ranges(w) ==
    RangePass(w, 1, Len(w), [r0 |-> <<0, -1>>, r1 |-> <<>>, r2 |-> <<>>])

\* nItems += range2_[r2][1] - range2_[r2][0] + 1, for the elements lo..hi
RECURSIVE NItems(_, _, _)
NItems(r2, lo, hi) ==
    IF lo > hi THEN 0
    ELSE IF lo = hi THEN r2[lo][2] - r2[lo][1] + 1
    ELSE NItems(r2, lo, (lo + hi) \div 2) + NItems(r2, (lo + hi) \div 2 + 1, hi)

\* FineEwaldCoulombPotential(system): kCutoff_(1.0), empty arrays
EwaldInit ==
    /\ recLen \in [1..Dimension -> 1..MaxRecLen]
    /\ tilt \in 0..MaxTilt
    /\ kCutoff_ = 1
    /\ waves_ = <<>>
    /\ ksq_ = <<>>
    /\ g_ = 0
    /\ rho_ = 0
    /\ fexp0_ = 0
    /\ fexp1_ = 0
    /\ fexp2_ = 0
    /\ base0_ = 0
    /\ base1_ = 0
    /\ base2_ = 0
    /\ range0_ = <<0, 0>>
    /\ range1_ = <<>>
    /\ range2_ = <<>>
    /\ ewCall = Call("FineEwaldCoulombPotential", TRUE, 0)
    /\ madeWaves = FALSE
    /\ visited = <<>>
    /\ forceOob = FALSE

\* The potential of the specifications that are not about it.
EwaldIdle ==
    /\ EwaldInit
    /\ recLen = [d \in 1..Dimension |-> 1]
    /\ tilt = 0

\* read<double>(in, "kCutoff", kCutoff_)
readParameters(kCutoff) ==
    /\ kCutoff # kCutoff_
    /\ kCutoff_' = kCutoff
    /\ ewCall' = Call("readParameters", TRUE, 0)
    /\ UNCHANGED <<recLen, tilt, waves_, ksq_, g_, rho_, fexp0_, fexp1_, fexp2_,
                   base0_, base1_, base2_, range0_, range1_, range2_, madeWaves,
                   visited, forceOob>>

\* makeWaves(). GArray::resize with a negative size and the bound check throw;
\* the members assigned before the throw keep their new values.
makeWaves ==
    /\ waves_' = WavesK0(0)
    /\ ksq_' = [i \in 1..Len(waves_') |-> KSq(waves_'[i])]
    /\ g_' = Len(waves_')
    /\ base0_' = 0
    /\ base1_' = BaseOf(waves_', 2, maxK(1))
    /\ base2_' = BaseOf(waves_', 3, maxK(2))
    /\ visited' = <<>>
    /\ forceOob' = FALSE
    /\ UNCHANGED <<recLen, tilt, kCutoff_>>
    /\ LET size0 == UpperOf(waves_', 1, -maxK(0)) - base0_' + 1
           size1 == UpperOf(waves_', 2, -maxK(1)) - base1_' + 1
           size2 == UpperOf(waves_', 3, -maxK(2)) - base2_' + 1
       IN  IF size0 < 0 \/ size1 < 0 \/ size2 < 0
           THEN /\ ewCall' = Call("makeWaves", FALSE, "resize")
                /\ madeWaves' = FALSE
                /\ fexp0_' = IF size0 < 0 THEN 0 ELSE size0
                /\ fexp1_' = IF size0 < 0 \/ size1 < 0 THEN 0 ELSE size1
                /\ fexp2_' = 0
                /\ rho_' = 0
                /\ range0_' = range0_
                /\ range1_' = <<>>
                /\ range2_' = <<>>
           ELSE /\ fexp0_' = size0
                /\ fexp1_' = size1
                /\ fexp2_' = size2
                /\ \E r \in {Ranges(waves_')} :
                      /\ range0_' = r.r0
                      /\ range1_' = r.r1
                      /\ range2_' = r.r2
                /\ IF NItems(range2_', 1, Len(range2_')) # Len(waves_')
                   THEN /\ ewCall' = Call("makeWaves", FALSE, "bounds")
                        /\ madeWaves' = FALSE
                        /\ rho_' = 0
                   ELSE /\ ewCall' = Call("makeWaves", TRUE, 0)
                        /\ madeWaves' = TRUE
                        /\ rho_' = Len(waves_')

\* whether index i is inside an array of the given size
InArray(i, size) == 0 <= i /\ i < size

\* The wave loop of addKSpaceForces for one charged atom. st is
\* [vis, r1, r2, i, oob]: the triples visited, the running indices r1, r2 and
\* i of the code, and whether an array was indexed outside its bounds (where
\* the walk is cut off: what the program does after that is undefined). Each
\* turn binds the state it leaves as a value before the next turn starts.

\* for (i2 = range2_[r2][0]; i2 <= range2_[r2][1]; ++i2)
RECURSIVE LoopI2(_, _, _, _, _)
LoopI2(i0, i1, i2, last, st) ==
    IF st.oob \/ i2 > last THEN st
    ELSE IF ~(InArray(i2 - base2_, fexp2_) /\ InArray(st.i + 1, g_)
                /\ InArray(st.i + 1, rho_))
         THEN [st EXCEPT !.oob = TRUE]
         ELSE CHOOSE res \in
                { LoopI2(i0, i1, i2 + 1, last, m) :
                    m \in {[st EXCEPT !.i = @ + 1,
                                      !.vis = Append(@, <<i0, i1, i2>>)]} } : TRUE

\* for (i1 = range1_[r1][0]; i1 <= range1_[r1][1]; ++i1)
RECURSIVE LoopI1(_, _, _, _)
LoopI1(i0, i1, last, st) ==
    IF st.oob \/ i1 > last THEN st
    ELSE IF ~(InArray(i1 - base1_, fexp1_) /\ InArray(st.r2 + 1, Len(range2_)))
         THEN [st EXCEPT !.oob = TRUE]
         ELSE CHOOSE res \in
                { LoopI1(i0, i1 + 1, last, m) :
                    m \in {LoopI2(i0, i1, range2_[st.r2 + 2][1],
                                  range2_[st.r2 + 2][2],
                                  [st EXCEPT !.r2 = @ + 1])} } : TRUE

\* for (i0 = range0_[0]; i0 <= range0_[1]; ++i0)
RECURSIVE LoopI0(_, _)
LoopI0(i0, st) ==
    IF st.oob \/ i0 > range0_[2] THEN st
    ELSE IF ~(InArray(i0 - base0_, fexp0_) /\ InArray(st.r1 + 1, Len(range1_)))
         THEN [st EXCEPT !.oob = TRUE]
         ELSE CHOOSE res \in
                { LoopI0(i0 + 1, m) :
                    m \in {LoopI1(i0, range1_[st.r1 + 2][1],
                                  range1_[st.r1 + 2][2],
                                  [st EXCEPT !.r1 = @ + 1])} } : TRUE

\* r1 = -1; r2 = -1; i = -1; then the three nested loops. The tables fexp0_,
\* fexp1_ and fexp2_ are filled from element 0 before the loops.
WaveLoop ==
    IF ~(InArray(0, fexp0_) /\ InArray(0, fexp1_) /\ InArray(0, fexp2_))
    THEN [vis |-> <<>>, r1 |-> -1, r2 |-> -1, i |-> -1, oob |-> TRUE]
    ELSE LoopI0(range0_[1], [vis |-> <<>>, r1 |-> -1, r2 |-> -1, i |-> -1, oob |-> FALSE])

\* addKSpaceForces(), for a system with a charged atom; called after a
\* makeWaves() that completed.
addKSpaceForces ==
    /\ madeWaves
    /\ \E st \in {WaveLoop} :
          /\ visited' = st.vis
          /\ forceOob' = st.oob
          /\ ewCall' = Call("addKSpaceForces", ~st.oob, 0)
    /\ UNCHANGED <<recLen, tilt, kCutoff_, waves_, ksq_, g_, rho_, fexp0_, fexp1_,
                   fexp2_, base0_, base1_, base2_, range0_, range1_, range2_,
                   madeWaves>>

EwaldFrame == UNCHANGED <<cellVars, coulVars, gridVars, listVars, archiveVars, chargeVars>>

EwaldNext ==
    \/ (\E kc \in 1..MaxCutoff : readParameters(kc)) /\ EwaldFrame
    \/ makeWaves /\ EwaldFrame
    \/ addKSpaceForces /\ EwaldFrame

---------------------------------------------------------------------------
(* A list of SpCell bound by chaining initialize *)

\* the list holds cells 1..NumListCells
NumListCells == 3
\* the first cell is bound at address ListFirst
ListFirst == 1

ListCells == 1..NumListCells
ListAddrs == ListFirst..(ListFirst + NumListCells * MaxCapacity)
UnboundCell == [begin_ |-> 0, nAtom_ |-> 0, atomCapacity_ |-> 0]

\* The cells after construction or clear(), the array holding no atom.
ListInit ==
    /\ listCells = [c \in ListCells |-> UnboundCell]
    /\ listMem = [a \in ListAddrs |-> 0]
    /\ listBound = 0
    /\ listEnd = ListFirst
    /\ listClobbered = FALSE
    /\ listCall = Call("SpCell", TRUE, 0)

\* The list of the specifications that are not about it.
ListIdle == ListInit

\* incrementCapacity() on cell c: assert(begin_ == 0); ++atomCapacity_
listIncrementCapacity(c) ==
    /\ listCells[c].atomCapacity_ < MaxCapacity
    /\ IF listCells[c].begin_ = 0
       THEN /\ listCells' = [listCells EXCEPT ![c].atomCapacity_ = @ + 1]
            /\ listCall' = Call("incrementCapacity", TRUE, 0)
       ELSE /\ listCall' = Call("incrementCapacity", FALSE, 0)
            /\ UNCHANGED listCells
    /\ UNCHANGED <<listMem, listBound, listEnd, listClobbered>>

\* initialize(begin) on the next cell of the list, begin being what the
\* previous cell's initialize returned: the asserts, begin_ = begin,
\* return (begin_ + atomCapacity_)
listInitialize ==
    /\ listBound < NumListCells
    /\ LET c == listBound + 1
           cell == listCells[c]
       IN  IF cell.begin_ = 0 /\ cell.nAtom_ = 0 /\ cell.atomCapacity_ >= 0
           THEN /\ listCells' = [listCells EXCEPT ![c].begin_ = listEnd]
                /\ listEnd' = segmentEnd(listEnd, cell.atomCapacity_)
                /\ listBound' = c
                /\ listCall' = Call("initialize", TRUE, listEnd')
           ELSE /\ listCall' = Call("initialize", FALSE, 0)
                /\ UNCHANGED <<listCells, listEnd, listBound>>
    /\ UNCHANGED <<listMem, listClobbered>>

\* the slot at address a holds an atom of a cell other than c
HeldByOther(c, a) ==
    \E d \in ListCells \ {c} :
        /\ listCells[d].begin_ # 0
        /\ listCells[d].begin_ <= a
        /\ a < listCells[d].begin_ + listCells[d].nAtom_

\* append(atomPtr) on cell c: the asserts, begin_[nAtom_].setPtr(atomPtr),
\* ++nAtom_
listAppend(c) ==
    LET cell == listCells[c]
    IN  IF cell.begin_ # 0 /\ cell.nAtom_ < cell.atomCapacity_
        THEN /\ listMem' = [listMem EXCEPT ![cell.begin_ + cell.nAtom_] = c]
             /\ listClobbered' = (listClobbered \/ HeldByOther(c, cell.begin_ + cell.nAtom_))
             /\ listCells' = [listCells EXCEPT ![c].nAtom_ = @ + 1]
             /\ listCall' = Call("append", TRUE, 0)
             /\ UNCHANGED <<listBound, listEnd>>
        ELSE /\ listCall' = Call("append", FALSE, 0)
             /\ UNCHANGED <<listCells, listMem, listBound, listEnd, listClobbered>>

\* clear() on every cell of the list, before the list is built again: no
\* slot of the array holds an atom of a cell any more
listClear ==
    /\ listCells' = [c \in ListCells |-> UnboundCell]
    /\ listMem' = [a \in ListAddrs |-> 0]
    /\ listBound' = 0
    /\ listEnd' = ListFirst
    /\ listCall' = Call("clear", TRUE, 0)
    /\ UNCHANGED listClobbered

ListFrame == UNCHANGED <<cellVars, coulVars, gridVars, ewaldVars, archiveVars, chargeVars>>

ListNext ==
    \/ (\E c \in ListCells : listIncrementCapacity(c)) /\ ListFrame
    \/ listInitialize /\ ListFrame
    \/ (\E c \in ListCells : listAppend(c)) /\ ListFrame
    \/ listClear /\ ListFrame

---------------------------------------------------------------------------
(* TextFileOArchive *)

\* at most MaxPacks calls are made on the archive
MaxPacks == 2
\* strings have 0..MaxStrLen characters
MaxStrLen == 2
\* the floating point values written are 0, 1/2, 1, ..., MaxHalf/2
MaxHalf == 3

EOL == <<"\n">>
IntValues == {0, 7, 12}
Halves == 0..MaxHalf
StrChars == {"a", "b"}
Strings == UNION { [1..n -> StrChars] : n \in 0..MaxStrLen }

\* What operator<< writes for the types the archive is used with, on a
\* std::ostream with the formatting state f.
DigitChar(d) == <<"0", "1", "2", "3", "4", "5", "6", "7", "8", "9">>[d + 1]

RECURSIVE Decimal(_)
Decimal(n) ==
    IF n < 10 THEN <<DigitChar(n)>> ELSE Decimal(n \div 10) \o <<DigitChar(n % 10)>>

Zeros(k) == [i \in 1..k |-> "0"]

\* right-justified in a field of f.width characters, filled with spaces
Padded(text, f) ==
    IF Len(text) >= f.width THEN text
    ELSE [i \in 1..(f.width - Len(text)) |-> " "] \o text

\* the value h/2 in the stream's notation: %g with the precision for the
\* default notation, d.ddd...e+XX with precision digits for scientific
FloatText(h, f) ==
    IF f.scientific
    THEN IF h = 0 THEN <<"0", ".">> \o Zeros(f.precision) \o <<"e", "+", "0", "0">>
         ELSE IF h = 1
              THEN <<"5", ".">> \o Zeros(f.precision) \o <<"e", "-", "0", "1">>
              ELSE <<DigitChar(h \div 2), ".", IF h % 2 = 1 THEN "5" ELSE "0">>
                     \o Zeros(f.precision - 1) \o <<"e", "+", "0", "0">>
    ELSE IF h % 2 = 0 THEN Decimal(h \div 2)
         ELSE Decimal(h \div 2) \o <<".", "5">>

\* a formatted insertion uses the field width and resets it: width(0)
AfterInsert(f) == [f EXCEPT !.width = 0]

\* a stream as std::ofstream constructs it
DefaultFormat == [scientific |-> FALSE, precision |-> 6, width |-> 0]

\* The archive after setStream(out) with a stream just opened.
ArchiveInit ==
    /\ out = <<>>
    /\ fmt = DefaultFormat
    /\ arCall = [op |-> "setStream", value |-> 0, text |-> <<>>]
    /\ nPacks = 0

\* The archive of the specifications that are not about it.
ArchiveIdle == ArchiveInit

\* the call op wrote text and left the stream's formatting state f
Wrote(op, value, text, f) ==
    /\ nPacks < MaxPacks
    /\ nPacks' = nPacks + 1
    /\ out' = out \o text
    /\ fmt' = f
    /\ arCall' = [op |-> op, value |-> value, text |-> text]

\* pack(const T& data) for T = int: *ostreamPtr_ << data << std::endl
IntRecord(n, f) == Padded(Decimal(n), f) \o EOL
packInt(n) == Wrote("packInt", n, IntRecord(n, fmt), AfterInsert(fmt))

\* pack(const T& data) for T = float
FloatRecord(h, f) == Padded(FloatText(h, f), f) \o EOL
packFloat(h) == Wrote("packFloat", h, FloatRecord(h, fmt), AfterInsert(fmt))

\* pack(const T& data) for T = std::string
StringRecord(str, f) == Padded(str, f) \o EOL

\* pack(const double& data): setf(std::ios::scientific); width(25);
\* precision(17); then the insertion
DoubleFormat(f) == [scientific |-> TRUE, precision |-> 17, width |-> 25]
packDouble(h) ==
    Wrote("packDouble", h, FloatRecord(h, DoubleFormat(fmt)),
          AfterInsert(DoubleFormat(fmt)))

\* serialize(ar, std::string& data, version):
\* int size = data.size(); ar.pack(size); ar.pack(data)
StringRecords_contentFirst(str, f) ==
    StringRecord(str, f) \o IntRecord(Len(str), AfterInsert(f))
StringRecords(str, f) ==
    IntRecord(Len(str), f) \o StringRecord(str, AfterInsert(f))
serializeString(str) ==
    Wrote("serializeString", str, StringRecords(str, fmt), AfterInsert(fmt))

ArchiveFrame == UNCHANGED <<cellVars, coulVars, gridVars, ewaldVars, listVars, chargeVars>>

ArchiveNext ==
    \/ (\E n \in IntValues : packInt(n)) /\ ArchiveFrame
    \/ (\E h \in Halves : packFloat(h)) /\ ArchiveFrame
    \/ (\E h \in Halves : packDouble(h)) /\ ArchiveFrame
    \/ (\E str \in Strings : serializeString(str)) /\ ArchiveFrame

---------------------------------------------------------------------------
(* FineEwaldCoulombPotential: the charge density modes *)

\* the system holds atoms 1..NumCharged, of charge +1 and -1 in turn
NumCharged == 2

ChargedAtoms == 1..NumCharged
charge(a) == IF a % 2 = 1 THEN 1 ELSE -1

\* The generalized positions the atoms take, in quarters of the cell, so
\* that cos and sin of 2 pi q.rg are 0, 1 or -1.
Positions == { <<0, 0, 0>>, <<1, 0, 2>>, <<3, 1, 0>> }

\* what rho_ can hold where no call has written it yet
StaleRho == { <<0, 0>>, <<5, -3>> }

\* dotqr = rg.dot(qv)*TwoPi, in quarter turns
dotqr(q, rg) == (q[1] * rg[1] + q[2] * rg[2] + q[3] * rg[3]) % 4
cosQ(t) == CASE t = 0 -> 1 [] t = 1 -> 0 [] t = 2 -> -1 [] t = 3 -> 0
sinQ(t) == CASE t = 0 -> 0 [] t = 1 -> 1 [] t = 2 -> 0 [] t = 3 -> -1

\* The atoms before any move, rho_ empty as the constructor leaves it.
ChargeInit ==
    /\ atomPos = [a \in ChargedAtoms |-> <<0, 0, 0>>]
    /\ rhoVal = <<>>
    /\ rhoStale = FALSE
    /\ chCall = Call("FineEwaldCoulombPotential", TRUE, 0)

\* The atoms of the specifications that are not about the charge modes.
ChargeIdle == ChargeInit

\* for (i = 0; i < rho_.size(); ++i) rho_[i] = DCMPLX(0.0, 0.0)
ClearedRho(rho) == [i \in 1..Len(rho) |-> <<0, 0>>]

\* for one atom: for (i = 0; i < waves_.size(); ++i)
\*    rho_[i] += DCMPLX(charge*cos(dotqr), charge*sin(dotqr))
AddAtom(rho, a) ==
    [i \in 1..Len(rho) |->
        IF i <= Len(waves_)
        THEN <<rho[i][1] + charge(a) * cosQ(dotqr(waves_[i], atomPos[a])),
               rho[i][2] + charge(a) * sinQ(dotqr(waves_[i], atomPos[a]))>>
        ELSE rho[i]]

\* the loop over species, molecules and atoms, from atom a on
RECURSIVE AddAtomsFrom(_, _)
AddAtomsFrom(rho, a) ==
    IF a > NumCharged THEN rho ELSE AddAtomsFrom(AddAtom(rho, a), a + 1)

\* the atoms' modes added to what rho_ holds
ComputedCharge_kept == AddAtomsFrom(rhoVal, 1)

\* computeKSpaceCharge(): what it leaves in rho_
ComputedCharge == AddAtomsFrom(ClearedRho(rhoVal), 1)

\* g_[i] = exp(prefactor*ksq)/ksq, as a positive weight that falls with ksq
GWeight(ksq) == (MaxCutoff * MaxCutoff) \div ksq + 1

\* total += (x*x + y*y)*g_[i] over the waves from i on; the constant factor
\* 1/(epsilon_ volume) is left out
RECURSIVE EnergySum(_, _)
EnergySum(rho, i) ==
    IF i > Len(waves_) THEN 0
    ELSE (rho[i][1] * rho[i][1] + rho[i][2] * rho[i][2]) * GWeight(ksq_[i])
            + EnergySum(rho, i + 1)

\* rho_ held, when a call began, non-zero modes other than those it left
Stale(before, after) ==
    before # after /\ \E i \in 1..Len(before) : before[i] # <<0, 0>>

\* makeWaves(), with what rho_.resize leaves in the elements of rho_
chargeMakeWaves ==
    /\ makeWaves
    /\ \E stale \in StaleRho : rhoVal' = [i \in 1..rho_' |-> stale]
    /\ rhoStale' = FALSE
    /\ chCall' = Call("makeWaves", madeWaves', 0)
    /\ UNCHANGED atomPos

\* the simulation moves an atom
moveAtom(a, rg) ==
    /\ atomPos[a] # rg
    /\ atomPos' = [atomPos EXCEPT ![a] = rg]
    /\ chCall' = Call("moveAtom", TRUE, 0)
    /\ UNCHANGED <<rhoVal, rhoStale>>
    /\ UNCHANGED ewaldVars

\* computeKSpaceCharge(), after a makeWaves() that completed
computeKSpaceCharge ==
    /\ madeWaves
    /\ rhoVal' = ComputedCharge
    /\ rhoStale' = Stale(rhoVal, rhoVal')
    /\ chCall' = Call("computeKSpaceCharge", TRUE, 0)
    /\ UNCHANGED atomPos
    /\ UNCHANGED ewaldVars

\* kspaceEnergy(): computeKSpaceCharge(), then the sum over the waves
kspaceEnergy ==
    /\ madeWaves
    /\ rhoVal' = ComputedCharge
    /\ rhoStale' = Stale(rhoVal, rhoVal')
    /\ chCall' = Call("kspaceEnergy", TRUE, EnergySum(rhoVal', 1))
    /\ UNCHANGED atomPos
    /\ UNCHANGED ewaldVars

\* addKSpaceForces(): computeKSpaceCharge(), then the wave loop
chargeAddKSpaceForces ==
    /\ addKSpaceForces
    /\ rhoVal' = ComputedCharge
    /\ rhoStale' = Stale(rhoVal, rhoVal')
    /\ chCall' = Call("addKSpaceForces", ewCall'.ok, 0)
    /\ UNCHANGED atomPos

ChargeFrame ==
    UNCHANGED <<cellVars, coulVars, gridVars, listVars, archiveVars>>

ChargeNext ==
    \/ chargeMakeWaves /\ ChargeFrame
    \/ (\E a \in ChargedAtoms : \E rg \in Positions : moveAtom(a, rg)) /\ ChargeFrame
    \/ computeKSpaceCharge /\ ChargeFrame
    \/ kspaceEnergy /\ ChargeFrame
    \/ chargeAddKSpaceForces /\ ChargeFrame

---------------------------------------------------------------------------
(* Specifications *)

InitCell == CellInit /\ CoulInit /\ GridIdle /\ EwaldIdle /\ ListIdle /\ ArchiveIdle /\ ChargeIdle

SpecCell == InitCell /\ [][CellNext]_vars
SpecCellAccess == InitCell /\ [][CellAccessNext]_vars

InitCoulomb == CoulInit /\ CellIdle /\ GridIdle /\ EwaldIdle /\ ListIdle /\ ArchiveIdle /\ ChargeIdle

SpecCoulomb == InitCoulomb /\ [][CoulNext]_vars

InitGrid == GridInit /\ CellIdle /\ CoulInit /\ EwaldIdle /\ ListIdle /\ ArchiveIdle /\ ChargeIdle

SpecGrid == InitGrid /\ [][GridNext]_vars

InitEwald == EwaldInit /\ CellIdle /\ CoulInit /\ GridIdle /\ ListIdle /\ ArchiveIdle /\ ChargeIdle

SpecEwald == InitEwald /\ [][EwaldNext]_vars

InitList == ListInit /\ CellIdle /\ CoulInit /\ GridIdle /\ EwaldIdle /\ ArchiveIdle /\ ChargeIdle

SpecList == InitList /\ [][ListNext]_vars

InitArchive == ArchiveInit /\ CellIdle /\ CoulInit /\ GridIdle /\ EwaldIdle /\ ListIdle /\ ChargeIdle

SpecArchive == InitArchive /\ [][ArchiveNext]_vars

\* the charge modes are computed in a cubic cell, sheared or not
InitCharge ==
    /\ ChargeInit /\ EwaldInit /\ CellIdle /\ CoulInit /\ GridIdle /\ ListIdle /\ ArchiveIdle
    /\ \A d \in 1..Dimension : recLen[d] = recLen[1]

SpecCharge == InitCharge /\ [][ChargeNext]_vars

---------------------------------------------------------------------------
(* Properties of SpCell, checked under SpecCell *)

\* C1: N accepted incrementCapacity() calls on a cleared cell followed by one
\* initialize(begin) leave atomCapacity() = N, and initialize returns begin + N.
C1_CapacityDiscipline ==
    (cellCall.op = "initialize" /\ cellCall.ok)
        => /\ atomCapacity_ = nInc
           /\ cellCall.ret = begin_ + nInc

\* a cell sized by MaxCapacity calls and bound at the highest address
C1_Witness ==
    /\ cellCall.op = "initialize" /\ cellCall.ok
    /\ nInc = MaxCapacity
    /\ begin_ = MaxAddr

\* C2: in every reachable state nAtom() <= atomCapacity(); an append on a
\* full cell is rejected and leaves the live count where it was.
C2_CountWithinCapacity ==
    /\ [](0 <= nAtom_ /\ nAtom_ <= atomCapacity_)
    /\ [][(cellCall'.op = "append" /\ nAtom_ = atomCapacity_)
            => (~cellCall'.ok /\ nAtom_' = nAtom_)]_vars

\* a bound cell filled to a capacity of at least 2 has just refused an append
C2_Witness ==
    /\ cellCall.op = "append" /\ ~cellCall.ok
    /\ begin_ # 0
    /\ atomCapacity_ >= 2
    /\ nAtom_ = atomCapacity_

\* C3: an append issued before initialize has been accepted in the current
\* build cycle is rejected and changes nothing, whatever the capacity.
C3_AppendOnlyAfterInitialize ==
    [][(cellCall'.op = "append" /\ ~initCalled)
         => /\ ~cellCall'.ok
            /\ UNCHANGED <<nAtom_, atomCapacity_, begin_, mem>>]_vars

\* an append refused on a sized (capacity >= 1) but unbound cell
C3_Witness ==
    /\ cellCall.op = "append" /\ ~cellCall.ok
    /\ ~initCalled
    /\ atomCapacity_ >= 1

\* C4: once initialize has bound the cell, incrementCapacity() and
\* initialize() are rejected, and the binding and the capacity stay as they
\* are, until clear(); initialize is accepted at most once per build cycle.
C4_BoundUntilClear ==
    [][/\ (initCalled /\ cellCall'.op \in {"incrementCapacity", "initialize"})
            => ~cellCall'.ok
       /\ (initCalled /\ cellCall'.op # "clear")
            => (initCalled' /\ UNCHANGED <<begin_, atomCapacity_>>)
       /\ (cellCall'.op = "initialize" /\ cellCall'.ok) => ~initCalled
      ]_vars

\* a second initialize refused on a bound cell that holds no atom yet
C4_Witness ==
    /\ cellCall.op = "initialize" /\ ~cellCall.ok
    /\ initCalled
    /\ nAtom_ = 0
    /\ atomCapacity_ >= 1

\* C8: clear() zeroes the live count and the capacity and drops the binding,
\* leaves the next-cell link, the ghost flag, the id and the offset-table
\* pointer alone, and is followed by a build cycle in which
\* incrementCapacity, initialize and (up to the capacity) append are accepted.
C8_ClearFrame ==
    [][/\ cellCall'.op = "clear"
            => /\ cellCall'.ok
               /\ nAtom_' = 0 /\ atomCapacity_' = 0 /\ begin_' = 0
               /\ ~initCalled'
               /\ UNCHANGED <<nextSpCellPtr_, isGhostSpCell_, id_, offsetsPtr_>>
       /\ (~initCalled /\ cellCall'.op = "incrementCapacity")
            => (cellCall'.ok /\ atomCapacity_' = atomCapacity_ + 1)
       /\ (~initCalled /\ cellCall'.op = "initialize")
            => (cellCall'.ok /\ begin_' # 0)
       /\ (initCalled /\ nAtom_ < atomCapacity_ /\ cellCall'.op = "append")
            => (cellCall'.ok /\ nAtom_' = nAtom_ + 1)
      ]_vars

\* a ghost cell with a link, an offset table and the largest id, rebuilt after
\* a clear: the slot after its first atom still holds an atom of the cycle before
C8_Witness ==
    /\ cellCall.op = "append" /\ cellCall.ok
    /\ nAtom_ = 1
    /\ mem[begin_ + 1] # 0
    /\ isGhostSpCell_ /\ nextSpCellPtr_ # 0 /\ offsetsPtr_ # 0 /\ id_ = MaxId

---------------------------------------------------------------------------
(* Properties of MdCoulombPotential, checked under SpecCoulomb *)

\* C5: the first kSpaceEnergy() after unsetEnergy() calls computeEnergy()
\* exactly once and leaves the cache set; every further kSpaceEnergy() before
\* the next unsetEnergy() calls it zero times and returns the value the
\* earlier read returned. The same holds for kSpaceStress(), computeStress()
\* and unsetStress().
C5_CachedReads ==
    [][/\ coulCall'.op = "unsetEnergy" => (~kSpaceEnergy_'.isSet /\ energyReads' = 0)
       /\ coulCall'.op = "kSpaceEnergy"
            => /\ kSpaceEnergy_'.isSet
               /\ nComputeEnergy' = (IF energyReads = 0 THEN 1 ELSE 0)
               /\ energyReads > 0
                    => (coulCall'.ret = lastEnergy /\ kSpaceEnergy_' = kSpaceEnergy_)
       /\ coulCall'.op = "unsetStress" => (~kSpaceStress_'.isSet /\ stressReads' = 0)
       /\ coulCall'.op = "kSpaceStress"
            => /\ kSpaceStress_'.isSet
               /\ nComputeStress' = (IF stressReads = 0 THEN 1 ELSE 0)
               /\ stressReads > 0
                    => (coulCall'.ret = lastStress /\ kSpaceStress_' = kSpaceStress_)
      ]_vars

\* a second read after the particles moved: nothing is recomputed and the
\* value of the first read, no longer that of the configuration, is returned
C5_Witness ==
    /\ coulCall.op = "kSpaceEnergy"
    /\ energyReads = 2
    /\ nComputeEnergy = 0
    /\ coulCall.ret = lastEnergy
    /\ lastEnergy # KEnergy(config)

---------------------------------------------------------------------------
(* Properties of getNeighbors, checked under SpecGrid *)

\* the first nAtom() entries of the array filled for cell c, and the rest
OwnPart(c) == SubSeq(gridOut[c], 1, gridCells[c].nAtom)
NbrPart(c) == SubSeq(gridOut[c], gridCells[c].nAtom + 1, Len(gridOut[c]))

\* how often atom a occurs in a sequence
Occ(seq, a) == Cardinality({ i \in 1..Len(seq) : seq[i] = a })

\* how often the visited cells c.. produced a and b as a pair: one of them
\* in the cell's own part, the other in its neighbour part
RECURSIVE PairCount(_, _, _)
PairCount(a, b, c) ==
    IF c >= NumCells THEN 0
    ELSE (IF c \in gridVisited
          THEN Occ(OwnPart(c), a) * Occ(NbrPart(c), b)
                 + Occ(OwnPart(c), b) * Occ(NbrPart(c), a)
          ELSE 0) + PairCount(a, b, c + 1)

IsLocal(c) == ~gridCells[c].isGhost
MutualNeighbors(A, B) ==
    B \in Reach(gridOffsets, A) /\ A \in Reach(gridOffsets, B)

\* C6: for distinct local cells A and B that reach each other through the
\* offset table, with id(A) < id(B): the atoms of B are in the neighbour part
\* of getNeighbors(A), no atom of A is in that of getNeighbors(B), and once all
\* local cells are visited each pair of an atom of A and an atom of B has been
\* produced exactly once.
C6_NoDoubleCounting ==
    \A A \in Cells : \A B \in Cells :
        (/\ A # B /\ IsLocal(A) /\ IsLocal(B)
         /\ MutualNeighbors(A, B)
         /\ gridCells[A].id < gridCells[B].id)
        => /\ A \in gridVisited
                => \A i \in 1..gridCells[B].nAtom : Occ(NbrPart(A), <<B, i>>) = 1
           /\ B \in gridVisited
                => \A i \in 1..gridCells[A].nAtom : Occ(NbrPart(B), <<A, i>>) = 0
           /\ gridCur = -1
                => \A i \in 1..gridCells[A].nAtom : \A j \in 1..gridCells[B].nAtom :
                       PairCount(<<A, i>>, <<B, j>>, 0) = 1

\* the traversal is over and two local cells that reach each other, each
\* holding an atom, have different ids
C6_Witness ==
    /\ gridCur = -1
    /\ \E A \in Cells : \E B \in Cells :
          /\ A # B /\ IsLocal(A) /\ IsLocal(B)
          /\ MutualNeighbors(A, B)
          /\ gridCells[A].id < gridCells[B].id
          /\ gridCells[A].nAtom >= 1 /\ gridCells[B].nAtom >= 1
          /\ {A, B} \subseteq gridVisited

\* C7: every atom of a ghost cell the offset table reaches from a local cell
\* is in the neighbour part of that cell's getNeighbors, whatever the two ids.
C7_GhostInclusion ==
    \A C \in gridVisited : \A G \in Reach(gridOffsets, C) :
        gridCells[G].isGhost
            => \A i \in 1..gridCells[G].nAtom : Occ(NbrPart(C), <<G, i>>) >= 1

\* a visited local cell reaches a ghost cell that holds an atom and has the smaller id
C7_Witness ==
    \E C \in gridVisited : \E G \in Reach(gridOffsets, C) :
        /\ gridCells[G].isGhost
        /\ gridCells[G].nAtom >= 1
        /\ gridCells[G].id < gridCells[C].id

---------------------------------------------------------------------------
(* FineEwaldCoulombPotential: properties under SpecEwald *)

\* the half-space rule for a stored triple
InHalfSpace(k) ==
    \/ k[1] > 0
    \/ k[1] = 0 /\ k[2] > 0
    \/ k[1] = 0 /\ k[2] = 0 /\ k[3] >= 1

Negated(k) == <<-k[1], -k[2], -k[3]>>

\* Every integer triple whose wavevector can be within kCutoff_ of the
\* origin: k[j] = q . a_j / 2 pi, so |k[0]| <= kCutoff_ (1 + tilt) and
\* |k[1]|, |k[2]| <= kCutoff_, whatever the lengths B0, B1, B2 >= 1.
TriplesInReach ==
    { <<k0, k1, k2>> : k0 \in -(kCutoff_ * (1 + tilt))..(kCutoff_ * (1 + tilt)),
                       k1 \in -kCutoff_..kCutoff_,
                       k2 \in -kCutoff_..kCutoff_ }

Stored(k) == \E i \in 1..Len(waves_) : waves_[i] = k

\* C9: after makeWaves() the zero wave is not stored, no wave is stored
\* twice, every stored triple obeys the half-space rule and is within the
\* cutoff (with the ksq stored for it the square of its wavevector), and of
\* every nonzero triple k within the cutoff exactly one of k and -k is stored.
C9_HalfSpaceWaves ==
    ewCall.op = "makeWaves" =>
        /\ ~Stored(<<0, 0, 0>>)
        /\ \A i \in 1..Len(waves_) : \A j \in 1..Len(waves_) :
               waves_[i] = waves_[j] => i = j
        /\ \A i \in 1..Len(waves_) :
               /\ InHalfSpace(waves_[i])
               /\ KSq(waves_[i]) <= kCutoff_ * kCutoff_
               /\ ksq_[i] = KSq(waves_[i])
        /\ Len(ksq_) = Len(waves_)
        /\ \A k \in TriplesInReach :
               (k # <<0, 0, 0>> /\ KSq(k) <= kCutoff_ * kCutoff_)
                   => (Stored(k) /\ ~Stored(Negated(k)))
                        \/ (~Stored(k) /\ Stored(Negated(k)))

\* makeWaves() completed on a tilted boundary and stored a wave of the plane
\* k[0] = 0 with k[1] > 0 and k[2] < 0, and one with k[0] > 0 and k[1] < 0
C9_Witness ==
    /\ ewCall.op = "makeWaves"
    /\ ewCall.ok
    /\ tilt > 0
    /\ \E i \in 1..Len(waves_) :
          waves_[i][1] = 0 /\ waves_[i][2] > 0 /\ waves_[i][3] < 0
    /\ \E i \in 1..Len(waves_) : waves_[i][1] > 0 /\ waves_[i][2] < 0

\* C10: after a makeWaves() that completed, the nested loops of
\* addKSpaceForces visit the stored waves in their order, each once and
\* nothing else, and index no array outside its bounds.
C10_LoopVisitsKeptWaves ==
    ewCall.op = "addKSpaceForces" => (visited = waves_ /\ ~forceOob)

\* The walk is right whenever a wave of the plane k[0] = 0 is stored and the
\* stored k[0] have no gap: the loop over i0 starts at range0_[0] = 0 and takes
\* one element of range1_ per value of i0.
WalkHoldsOnContiguousRows ==
    (/\ ewCall.op = "addKSpaceForces"
     /\ \A i0 \in 0..range0_[2] : \E i \in 1..Len(waves_) : waves_[i][1] = i0)
        => (visited = waves_ /\ ~forceOob)

---------------------------------------------------------------------------
(* MdCoulombPotential: further properties under SpecCoulomb *)

\* C11: after unsetWaves() the wave state is marked invalid and the cached
\* k-space energy and k-space stress are both unset.
C11_UnsetWavesUnsetsCaches ==
    coulCall.op = "unsetWaves"
        => (~hasWaves_ /\ ~kSpaceEnergy_.isSet /\ ~kSpaceStress_.isSet)

\* What unsetWaves() does: it marks the wave state invalid and leaves both
\* caches, flag and value, as they were.
UnsetWavesKeepsCaches ==
    [][coulCall'.op = "unsetWaves"
          => (/\ ~hasWaves_'
              /\ kSpaceEnergy_' = kSpaceEnergy_
              /\ kSpaceStress_' = kSpaceStress_)]_vars

EnergyOps == {"unsetEnergy", "kSpaceEnergy"}
StressOps == {"unsetStress", "kSpaceStress"}

\* C16: unsetEnergy() and kSpaceEnergy() leave the stress cache (flag and
\* value) and hasWaves_ unchanged and do not call computeStress();
\* unsetStress() and kSpaceStress() leave the energy cache and hasWaves_
\* unchanged and do not call computeEnergy().
C16_CachesIndependent ==
    [][/\ coulCall'.op \in EnergyOps
            => (/\ kSpaceStress_' = kSpaceStress_
                /\ hasWaves_' = hasWaves_
                /\ nComputeStress' = 0)
       /\ coulCall'.op \in StressOps
            => (/\ kSpaceEnergy_' = kSpaceEnergy_
                /\ hasWaves_' = hasWaves_
                /\ nComputeEnergy' = 0)]_vars

\* unsetEnergy() was called while the stress cache was set and the waves
\* valid, and the stress cache is still set
C16_Witness ==
    /\ coulCall.op = "unsetEnergy"
    /\ ~kSpaceEnergy_.isSet
    /\ kSpaceStress_.isSet
    /\ hasWaves_

---------------------------------------------------------------------------
(* SpCell: further properties under SpecCell *)

\* the cell is unbound and incrementCapacity() was not called since
\* construction or the last clear()
EmptyCell == begin_ = 0 /\ nInc = 0

\* C12 (amended): initialize(begin) on an unbound cell with capacity 0 is
\* accepted: it binds the cell to begin, leaves the capacity 0 and returns
\* begin, the end of an empty segment.
C12_InitializeOnEmptyBinds ==
    [][(cellCall'.op = "initialize" /\ EmptyCell)
          => (/\ cellCall'.ok
              /\ begin_' \in Addrs
              /\ cellCall'.ret = begin_'
              /\ atomCapacity_' = 0
              /\ nAtom_' = 0)]_vars

\* an empty cell was bound: initialize was accepted with capacity 0
C12_Witness ==
    /\ cellCall.op = "initialize"
    /\ cellCall.ok
    /\ nInc = 0
    /\ atomCapacity_ = 0
    /\ begin_ # 0

\* C12 as stated: initialize(begin) on a cell in the Empty state is rejected
\* and does not bind the cell.
C12_InitializeOnEmptyRejected ==
    [][(cellCall'.op = "initialize" /\ EmptyCell)
          => (~cellCall'.ok /\ begin_' = 0)]_vars

\* C15: a bound cell that accepted k appends has nAtom() = k, and for every
\* i in 0..k-1 slot begin + i holds the i-th appended atom; atomPtr(i) returns
\* begin + i for those i and is rejected for every other i, an i below the
\* capacity included.
C15_AppendedSlots ==
    /\ begin_ # 0 =>
          /\ nAtom_ = Len(appended)
          /\ nAtom_ <= atomCapacity_
          /\ \A i \in 0..(nAtom_ - 1) : mem[begin_ + i] = appended[i + 1]
    /\ cellCall.op = "atomPtr" =>
          /\ cellCall.ok <=> (0 <= cellCall.arg /\ cellCall.arg < nAtom_)
          /\ cellCall.ok =>
                /\ cellCall.ret = begin_ + cellCall.arg
                /\ mem[cellCall.ret] = appended[cellCall.arg + 1]

\* two different atoms were appended and atomPtr(0) returned the slot of
\* the first
C15_Witness ==
    /\ cellCall.op = "atomPtr"
    /\ cellCall.ok
    /\ cellCall.arg = 0
    /\ Len(appended) = 2
    /\ appended[1] # appended[2]

\* atomPtr(i) was rejected for an index at or past nAtom() but below the
\* capacity of a bound cell
AtomPtrRejectedBelowCapacity ==
    /\ cellCall.op = "atomPtr"
    /\ ~cellCall.ok
    /\ begin_ # 0
    /\ nAtom_ <= cellCall.arg
    /\ cellCall.arg < atomCapacity_

---------------------------------------------------------------------------
(* The chained list of cells: properties under SpecList *)

IsBound(c) == listCells[c].begin_ # 0

\* the addresses of the segment [begin_, begin_ + atomCapacity_) of cell c
Segment(c) ==
    listCells[c].begin_..(listCells[c].begin_ + listCells[c].atomCapacity_ - 1)

RECURSIVE CapacitySum(_)
CapacitySum(c) ==
    IF c = 0 THEN 0 ELSE listCells[c].atomCapacity_ + CapacitySum(c - 1)

\* C14: the segments of distinct bound cells are disjoint; the address the
\* last initialize returned is the first begin plus the capacities of the
\* cells bound so far; every slot of the array that holds an atom lies in the
\* filled part of the segment of the cell it belongs to, and no append wrote
\* a slot holding an atom of another cell.
C14_ContiguousCarving ==
    /\ \A c \in ListCells : \A d \in ListCells :
          (c # d /\ IsBound(c) /\ IsBound(d)) => Segment(c) \cap Segment(d) = {}
    /\ listEnd = ListFirst + CapacitySum(listBound)
    /\ \A c \in ListCells : IsBound(c) <=> c <= listBound
    /\ \A c \in ListCells :
          IsBound(c) =>
              \A i \in 0..(listCells[c].nAtom_ - 1) :
                  listMem[listCells[c].begin_ + i] = c
    /\ ~listClobbered

\* every cell of the list is bound, two of them with a segment that is not
\* empty and completely filled
C14_Witness ==
    /\ listBound = NumListCells
    /\ \E c \in ListCells : \E d \in ListCells :
          /\ c # d
          /\ listCells[c].atomCapacity_ >= 1
          /\ listCells[c].nAtom_ = listCells[c].atomCapacity_
          /\ listCells[d].atomCapacity_ >= 1
          /\ listCells[d].nAtom_ = listCells[d].atomCapacity_

---------------------------------------------------------------------------
(* TextFileOArchive: properties under SpecArchive *)

\* C13: serializing a string appends to the stream the decimal number of its
\* characters and a line break, then the characters and a line break, and
\* nothing else, whatever was packed before on the same stream.
C13_StringCountThenContent ==
    [][arCall'.op = "serializeString"
          => out' = out \o Decimal(Len(arCall'.value)) \o EOL
                        \o arCall'.value \o EOL]_vars

\* a string of two different characters was serialized after a double had
\* been packed on the same stream
C13_Witness ==
    /\ arCall.op = "serializeString"
    /\ Len(arCall.value) = 2
    /\ arCall.value[1] # arCall.value[2]
    /\ fmt.scientific

\* C18: what pack writes for a float is what it writes for that value on a
\* stream on which no double was packed, whether or not a double was packed
\* earlier on the same archive and stream.
C18_FormatUnaffectedByDouble ==
    arCall.op = "packFloat" => arCall.text = FloatRecord(arCall.value, DefaultFormat)

\* What the archive keeps: the field width is 0 between calls, integers and
\* strings are written the same after a double, and the notation and
\* precision are those pack(double) set once a double was packed.
ArchiveFormatState ==
    /\ fmt.width = 0
    /\ fmt \in {DefaultFormat, AfterInsert(DoubleFormat(DefaultFormat))}
    /\ arCall.op = "packInt" => arCall.text = IntRecord(arCall.value, DefaultFormat)
    /\ arCall.op = "packFloat" => arCall.text = FloatRecord(arCall.value, fmt)

\* the calls that compute the charge modes
ChargeOps == {"computeKSpaceCharge", "kspaceEnergy", "addKSpaceForces"}

\* the sum over the atoms, from atom a on, of the charge times cos (part 1)
\* or sin (part 2) of 2 pi q.rg for the wave q
RECURSIVE ModeSum(_, _, _)
ModeSum(q, part, a) ==
    IF a > NumCharged THEN 0
    ELSE charge(a) * (IF part = 1 THEN cosQ(dotqr(q, atomPos[a]))
                                  ELSE sinQ(dotqr(q, atomPos[a])))
            + ModeSum(q, part, a + 1)

\* the charge modes of the atoms as they stand, one for each stored wave
Modes == [i \in 1..Len(waves_) |-> <<ModeSum(waves_[i], 1, 1), ModeSum(waves_[i], 2, 1)>>]

\* C17: after a call that computes the charge modes, rho_ holds for each
\* stored wave the sum over the atoms as they stand and nothing of what it
\* held before, and kspaceEnergy returns the energy of these modes; so calls
\* that follow each other with the atoms unmoved give the same rho_ and the
\* same energy.
C17_ChargeFromScratch ==
    chCall.op \in ChargeOps
        => /\ rhoVal = Modes
           /\ chCall.op = "kspaceEnergy" => chCall.ret = EnergySum(Modes, 1)

\* kspaceEnergy returned a non-zero energy from an array that held, when the
\* call began, non-zero modes other than those of the atoms as they stand
C17_Witness ==
    /\ chCall.op = "kspaceEnergy"
    /\ chCall.ret > 0
    /\ rhoStale

=============================================================================
